---- MODULE Spec2Model ----
(***************************************************************************)
(* The signal-propagation engine of burst: the per-instance cycle          *)
(* (ComponentInstance::step) and the orchestrator's global cycle           *)
(* (Orchestrator::step).                                                   *)
(*                                                                         *)
(* Node indices are petgraph NodeIndex values shifted by one (the first    *)
(* node added to a graph is node 1), and 0 stands for Option::None where   *)
(* an index is optional.  A u32 signal bitset is the set of its bit        *)
(* positions; CellFlags is the set of the names of its bits.               *)
(***************************************************************************)
EXTENDS Integers, Sequences, FiniteSets, TLC

\* ------------------------------------------------------------------ bounds
\* step() is not called once the cycle counter has reached MaxCycle.
MaxCycle == 6
\* The generated component graphs have at most MaxEdges edges.
MaxEdges == 2
\* init_cells has at most MaxInit entries.
MaxInit == 2
\* Orchestrator::step is not called once clock_cycle has reached MaxClock.
MaxClock == 5
\* The root is not signalled while MaxQueued instance indices are queued.
MaxQueued == 2

VARIABLES
  instance,      \* the ComponentInstance under test (SpecInst)
  pc,            \* the caller's loop: "new", "running" (run() is looping), "returned", "idle"
  step_ret,      \* what the last step() returned: "none" yet, "true" or "false"
  init_cells,    \* the init_cells the instance was created with
  trace_log,     \* the trace!() events of the last step(), in order
  aborted,       \* an unimplemented!() arm was reached
  components,        \* OrchestratorData.components: the catalog, by name
  root_instance_ref, \* OrchestratorData.root_instance_ref
  instance_graph,    \* OrchestratorData.instance_graph: its nodes, by index
  instances,         \* the ComponentInstances created so far (the Rc heap)
  context,           \* OrchestratorData.context
  clock_cycle,       \* OrchestratorData.clock_cycle
  orch_pc,           \* the caller: "idle", "running" (run() is looping), "panicked"
  signal_calls,      \* the calls of signal_root_instance_connector_in so far
  run_calls          \* the calls of run() so far

instVars == <<instance, init_cells, pc, step_ret, trace_log, aborted>>

orchVars == <<components, root_instance_ref, instance_graph, instances, context,
              clock_cycle, orch_pc, signal_calls, run_calls>>

vars == <<instVars, orchVars>>

\* ------------------------------------------------------ component.rs data
FIRED == "FIRED"
STAGED == "STAGED"

Relay == "Relay"
OneShot == "OneShot"

\* A set_signal that assigns the bit instead of ORing it in.
ReplaceSignals(signals, signal_bit) == {signal_bit}

\* Cell::set_signal: self.signals |= 1 << signal_bit
set_signal(signals, signal_bit) == signals \cup {signal_bit}

\* Edge constructors
Signal(from, to, bit) ==
  [src |-> from, dst |-> to, kind |-> "Signal", bit |-> bit, name |-> ""]
Association(from, to) ==
  [src |-> from, dst |-> to, kind |-> "Association", bit |-> 0, name |-> ""]
Connection(from, to, connector_name) ==
  [src |-> from, dst |-> to, kind |-> "Connection", bit |-> 0, name |-> connector_name]

\* InstanceConnectorIx; instance_ix = 0 is the None of an unresolved ConnectorOut.
InstanceConnectorIx(instance_ix, connector_ix) ==
  [instance_ix |-> instance_ix, connector_ix |-> connector_ix]

Unresolved == InstanceConnectorIx(0, 0)

\* A Component: its graph as node kinds, cell types and the edges in the order
\* add_edge added them; per node the node_name of a ConnectorIn or component
\* reference, the component_name of a component reference and the
\* to_instance_connector of a ConnectorOut.
ComponentWith(name, kinds, types, edges, names, refs, targets) ==
  [name |-> name, kind |-> kinds, cell_type |-> types, edges |-> edges,
   node_name |-> names, component_name |-> refs, to_instance_connector |-> targets]

Component(name, kinds, types, edges) ==
  ComponentWith(name, kinds, types, edges,
                [n \in 1..Len(kinds) |-> ""], [n \in 1..Len(kinds) |-> ""],
                [n \in 1..Len(kinds) |-> Unresolved])

NodesOf(g) == 1..Len(g.kind)

\* graph.neighbors_directed(n, Outgoing): the edges leaving n, the most
\* recently added first (petgraph threads a new edge at the head of the list).
RECURSIVE OutEdgesFrom(_, _, _)
OutEdgesFrom(g, n, i) ==
  IF i = 0 THEN <<>>
  ELSE IF g.edges[i].src = n
       THEN <<g.edges[i]>> \o OutEdgesFrom(g, n, i - 1)
       ELSE OutEdgesFrom(g, n, i - 1)

OutEdges(g, n) == OutEdgesFrom(g, n, Len(g.edges))

\* The value of F at v, with v evaluated once.
Bind(v, F(_)) == CHOOSE r \in {F(x) : x \in {v}} : TRUE

\* ------------------------------------------------- component_instance.rs
\* ComponentInstanceId::new(): the cuid of the instance.
ComponentInstanceId == "cuid"

\* ComponentInstance::new: a private clone of the component, the seed cells
\* in staged_nodes, everything else empty.
NewInstance(component, seed) ==
  [ id             |-> ComponentInstanceId,
    component      |-> component,
    flags          |-> [n \in NodesOf(component) |-> {}],
    signals        |-> [n \in NodesOf(component) |-> {}],
    fired_nodes    |-> <<>>,
    active_nodes   |-> <<>>,
    staged_nodes   |-> seed,
    instance_cycle |-> 0 ]

is_active(inst) == Len(inst.staged_nodes) > 0 \/ Len(inst.fired_nodes) > 0

\* propagate_fired_signals, the edges of one fired node
RECURSIVE PropagateEdges(_, _, _, _)
PropagateEdges(g, es, i, signals) ==
  IF i > Len(es) THEN signals
  ELSE LET e == es[i] IN
       Bind(IF e.kind = "Signal" /\ g.kind[e.dst] = "Cell"
            THEN [signals EXCEPT ![e.dst] = set_signal(@, e.bit)]
            ELSE signals,
            LAMBDA next : PropagateEdges(g, es, i + 1, next))

\* A propagation that stops after the first fired node.
PropagateFirstOnly(g, fired, i, signals) ==
  IF i > Len(fired) THEN signals
  ELSE PropagateEdges(g, OutEdges(g, fired[i]), 1, signals)

\* propagate_fired_signals, the loop over fired_nodes
RECURSIVE PropagateNodes(_, _, _, _)
PropagateNodes(g, fired, i, signals) ==
  IF i > Len(fired) THEN signals
  ELSE Bind(OutEdges(g, fired[i]),
            LAMBDA es : Bind(PropagateEdges(g, es, 1, signals),
                             LAMBDA next : PropagateNodes(g, fired, i + 1, next)))

propagate_fired_signals(inst) ==
  [inst EXCEPT !.signals = PropagateNodes(inst.component, inst.fired_nodes, 1, @)]

\* The guard of both staging sites: !cell.flags.contains(CellFlags::STAGED)
StageAlways(flags) == TRUE

NotYetStaged(flags) == STAGED \notin flags

\* One staging site: push the target and set STAGED unless it is set already.
\* s is the step in progress: the instance, the connector events emitted,
\* the trace and whether the step hit unimplemented!().  The trace holds
\* "staging connections of n" as [via |-> "Fired", node |-> n] and
\* "staging t" as [via |-> the kind of the edge, node |-> t].
StageCell(s, target, via) ==
  IF NotYetStaged(s.inst.flags[target])
  THEN [s EXCEPT !.inst.staged_nodes = Append(@, target),
                 !.inst.flags[target] = @ \cup {STAGED},
                 !.log = Append(@, [via |-> via, node |-> target])]
  ELSE s

\* A ConnectorOut whose signal is dropped.
DropConnectorSignal(s, connector) == s

\* self.execution_context.signal_connector(connector, self.id.clone()): the
\* event is recorded with the ConnectorOut node and the identity of the
\* instance.
SignalConnector(s, connector) ==
  [s EXCEPT !.events = Append(@, [connector |-> connector, instance_id |-> s.inst.id])]

\* A first loop that looks at no edge.
NoSignalStaging(s, es, i) == s

\* First loop over the edges of a fired node: the Signal edges.
RECURSIVE StageSignalEdges(_, _, _)
StageSignalEdges(s, es, i) ==
  IF i > Len(es) \/ s.abort THEN s
  ELSE LET e == es[i]
           k == s.inst.component.kind[e.dst] IN
       Bind(IF e.kind # "Signal" THEN s
            ELSE IF k = "Cell" THEN StageCell(s, e.dst, "Signal")
            ELSE IF k = "ConnectorOut" THEN SignalConnector(s, e.dst)
            ELSE [s EXCEPT !.abort = TRUE],
            LAMBDA next : StageSignalEdges(next, es, i + 1))

\* Second loop over the edges of a fired Cell: the Association edges.
NoAssociationStaging(s, es, i) == s

RECURSIVE StageAssociationEdges(_, _, _)
StageAssociationEdges(s, es, i) ==
  IF i > Len(es) THEN s
  ELSE LET e == es[i] IN
       Bind(IF e.kind = "Association" /\ s.inst.component.kind[e.dst] = "Cell"
            THEN StageCell(s, e.dst, "Association")
            ELSE s,
            LAMBDA next : StageAssociationEdges(next, es, i + 1))

\* A loop body that leaves the FIRED flag of the fired node.
KeepFired(s, n) == s

\* The end of the loop body for the fired node n: its FIRED flag is removed.
ClearFired(s, n) ==
  IF s.abort THEN s
  ELSE IF s.inst.component.kind[n] \in {"Cell", "ConnectorIn"}
       THEN [s EXCEPT !.inst.flags[n] = @ \ {FIRED}]
       ELSE [s EXCEPT !.abort = TRUE]

\* The body of the loop over fired_nodes for one fired node.
StageFiredNode(s, n) ==
  Bind(OutEdges(s.inst.component, n), LAMBDA es :
    Bind(StageSignalEdges([s EXCEPT !.log = Append(@, [via |-> "Fired", node |-> n])],
                          es, 1),
         LAMBDA s1 :
           IF s1.abort THEN s1
           ELSE IF s.inst.component.kind[n] = "Cell"
                THEN Bind(StageAssociationEdges(s1, es, 1), LAMBDA s2 : ClearFired(s2, n))
                ELSE ClearFired(s1, n)))

RECURSIVE StageFiredNodes(_, _, _)
StageFiredNodes(s, fired, i) ==
  IF i > Len(fired) \/ s.abort THEN s
  ELSE Bind(StageFiredNode(s, fired[i]),
            LAMBDA next : StageFiredNodes(next, fired, i + 1))

\* A staging phase that leaves fired_nodes as it is.
StageWithoutClearing(s) == StageFiredNodes(s, s.inst.fired_nodes, 1)

\* stage_signaled_and_associated_nodes: the loop over fired_nodes, then
\* self.fired_nodes.clear()
stage_signaled_and_associated_nodes(s) ==
  Bind(StageFiredNodes(s, s.inst.fired_nodes, 1),
       LAMBDA r : IF r.abort THEN r ELSE [r EXCEPT !.inst.fired_nodes = <<>>])

\* What process_active_nodes does to the flags of an active Cell
\* (Relay | OneShot => cell.flags.insert(FIRED)); STAGED is left as it is.
ActivateWithoutFiring(flags) == flags

ActivateCell(flags) == flags \cup {FIRED}

\* match cell.cell_type { Relay | OneShot => ... }: the cell types whose arm
\* inserts FIRED.
FiresOnlyRelay(cell_type) == cell_type = Relay

FiresWhenActivated(cell_type) == cell_type \in {Relay, OneShot}

\* cell.signals = 0 once the cell is processed
KeepSignals(signals) == signals

ResetSignals(signals) == {}

\* The body of the loop over active_nodes for the active node n.
ProcessActiveNode(s, n) ==
  LET k == s.inst.component.kind[n] IN
  IF k = "Cell"
  THEN Bind(IF FiresWhenActivated(s.inst.component.cell_type[n])
            THEN ActivateCell(s.inst.flags[n])
            ELSE s.inst.flags[n], LAMBDA fl :
         [s EXCEPT !.inst.flags[n] = fl,
                   !.inst.fired_nodes = IF FIRED \in fl THEN Append(@, n) ELSE @,
                   !.inst.signals[n] = ResetSignals(@)])
  ELSE IF k = "ConnectorIn"
  THEN [s EXCEPT !.inst.flags[n] = @ \cup {FIRED},
                 !.inst.fired_nodes = Append(@, n)]
  ELSE [s EXCEPT !.abort = TRUE]

RECURSIVE ProcessActive(_, _)
ProcessActive(s, i) ==
  IF i > Len(s.inst.active_nodes) \/ s.abort THEN s
  ELSE Bind(ProcessActiveNode(s, s.inst.active_nodes[i]),
            LAMBDA next : ProcessActive(next, i + 1))

process_active_nodes(s) == ProcessActive(s, 1)

\* staged_nodes after the swap with active_nodes and the clear() that follows
StagedKeptAfterSwap(old_active) == old_active

StagedAfterSwap(old_active) == <<>>

\* if staged_nodes.len() > 0 { swap; clear; process_active_nodes }
SwapAndProcess(s) ==
  IF Len(s.inst.staged_nodes) > 0
  THEN Bind([s EXCEPT !.inst.active_nodes = s.inst.staged_nodes,
                      !.inst.staged_nodes = StagedAfterSwap(s.inst.active_nodes)],
            LAMBDA swapped : process_active_nodes(swapped))
  ELSE s

\* self.instance_cycle += 1
CycleUnchanged(c) == c

NextCycle(c) == c + 1

\* The end of step(): the counter and the value returned.
FinishStep(s) ==
  IF s.abort
  THEN [inst |-> s.inst, ret |-> FALSE, events |-> s.events,
        log |-> s.log, abort |-> TRUE]
  ELSE [inst |-> [s.inst EXCEPT !.instance_cycle = NextCycle(@)],
        ret |-> Len(s.inst.fired_nodes) > 0, events |-> s.events,
        log |-> s.log, abort |-> FALSE]

\* ComponentInstance::step.  The result holds the instance after the call,
\* the value returned, the connector events forwarded (in order), the trace,
\* and whether the call panicked instead of returning.
step(inst) ==
  Bind([inst |-> propagate_fired_signals(inst), events |-> <<>>,
        log |-> <<>>, abort |-> FALSE], LAMBDA s0 :
    Bind(stage_signaled_and_associated_nodes(s0), LAMBDA s1 :
      IF s1.abort THEN FinishStep(s1)
      ELSE Bind(SwapAndProcess(s1), LAMBDA s2 : FinishStep(s2))))

\* --------------------------------------------------- the instance alone
\* The component of test it_works: A(OneShot) -Signal(0)-> B, B -Association-> C,
\* B -Signal(0)-> D.
AComponent ==
  Component("AComponent", <<"Cell", "Cell", "Cell", "Cell">>,
            <<OneShot, Relay, Relay, Relay>>,
            <<Signal(1, 2, 0), Association(2, 3), Signal(2, 4, 0)>>)

\* Two sources fired together, one with an Association edge, the other with a
\* Signal edge: X -Association-> C, Y -Signal(0)-> D.
CrossBatch ==
  Component("CrossBatch", <<"Cell", "Cell", "Cell", "Cell">>,
            <<Relay, Relay, Relay, Relay>>,
            <<Association(1, 3), Signal(2, 4, 0)>>)

\* The generated components: three Relay cells and every sequence of at most
\* MaxEdges Signal(0) and Association edges between them.
GenNodes == {1, 2, 3}

GenEdges ==
  {Signal(a, b, 0) : a \in GenNodes, b \in GenNodes}
    \cup {Association(a, b) : a \in GenNodes, b \in GenNodes}

GenEdgeSeqs == UNION {[1..k -> GenEdges] : k \in 0..MaxEdges}

GenComponents ==
  {Component("Gen", <<"Cell", "Cell", "Cell">>, <<Relay, Relay, Relay>>, es) :
     es \in GenEdgeSeqs}

\* The components with other nodes than cells: node 1 a Cell or a ConnectorIn,
\* node 2 a Cell, node 3 a ConnectorIn, a ConnectorOut or a component
\* reference, and every sequence of at most MaxEdges Signal(0) and
\* Association edges that lead from a lower to a higher node.
MixedPairs == {<<1, 2>>, <<1, 3>>, <<2, 3>>}

MixedEdges ==
  {Signal(p[1], p[2], 0) : p \in MixedPairs}
    \cup {Association(p[1], p[2]) : p \in MixedPairs}

MixedComponents ==
  {Component("Mixed", <<k1, "Cell", k3>>, <<OneShot, Relay, Relay>>, es) :
     k1 \in {"Cell", "ConnectorIn"},
     k3 \in {"ConnectorIn", "ConnectorOut", "Component"},
     es \in UNION {[1..k -> MixedEdges] : k \in 0..MaxEdges}}

\* A cell that is signalled again after it was staged: A -0-> B -0-> C,
\* C -1-> B, C -0-> D, D -2-> B, and from D an Association edge to C and a
\* Connection edge to A.
Accumulator ==
  Component("Accumulator", <<"Cell", "Cell", "Cell", "Cell">>,
            <<Relay, Relay, Relay, Relay>>,
            <<Signal(1, 2, 0), Signal(2, 3, 0), Signal(3, 2, 1), Signal(3, 4, 0),
              Signal(4, 2, 2), Association(4, 3), Connection(4, 1, "")>>)

InstComponents ==
  GenComponents \cup MixedComponents \cup {AComponent, CrossBatch, Accumulator}

\* init_cells: at most MaxInit nodes a step can activate, repeats allowed.
InitCellSeqs(g) ==
  UNION {[1..k -> {n \in NodesOf(g) : g.kind[n] \in {"Cell", "ConnectorIn"}}] :
           k \in 0..MaxInit}

\* The generated components are closed under renaming their three cells, so
\* their seeds are taken up to renaming: the cells appear in the seed in the
\* order 1, 2, 3 of their first occurrence.
FirstOccurrencesInOrder(ic) ==
  \A i \in 1..Len(ic) : \A m \in 1..(ic[i] - 1) : \E j \in 1..(i - 1) : ic[j] = m

InstSeeds(g) ==
  IF g \in GenComponents
  THEN {ic \in InitCellSeqs(g) : FirstOccurrencesInOrder(ic)}
  ELSE InitCellSeqs(g)

\* OrchestratorData::new
NoOrchestrator ==
  /\ components = <<>>
  /\ root_instance_ref = [component_name |-> "", instance_ix |-> 0]
  /\ instance_graph = <<>>
  /\ instances = <<>>
  /\ context = [active_instance_ixs |-> <<>>, queued_instance_ixs |-> <<>>,
                signaled_connector_ixs |-> <<>>]
  /\ clock_cycle = 0
  /\ orch_pc = "idle"
  /\ signal_calls = 0
  /\ run_calls = 0

InitInst ==
  /\ \E g \in InstComponents : \E ic \in InstSeeds(g) :
        /\ instance = NewInstance(g, ic)
        /\ init_cells = ic
  /\ pc = "new"
  /\ step_ret = "none"
  /\ trace_log = <<>>
  /\ aborted = FALSE
  /\ NoOrchestrator

\* One call of step(): an iteration of run()'s loop while it loops, a direct
\* call once run() has returned.
Step ==
  /\ ~aborted
  /\ instance.instance_cycle < MaxCycle
  /\ \E r \in {step(instance)} :
       /\ instance' = r.inst
       /\ step_ret' = IF r.ret THEN "true" ELSE "false"
       /\ trace_log' = r.log
       /\ aborted' = r.abort
       /\ pc' = IF pc \in {"new", "running"}
                THEN (IF r.ret THEN "running" ELSE "returned")
                ELSE "idle"
  /\ UNCHANGED <<init_cells, orchVars>>

NextInst == Step

SpecInst == InitInst /\ [][NextInst]_vars

\* The runs in which the cell types vary: every graph of two cells with at
\* most MaxEdges edges and the graph of test it_works, under every assignment
\* of Relay and OneShot to their cells.
TypedEdges ==
  {Signal(a, b, 0) : a \in {1, 2}, b \in {1, 2}}
    \cup {Association(a, b) : a \in {1, 2}, b \in {1, 2}}

TypedComponents ==
  {Component("Typed", <<"Cell", "Cell">>, types, es) :
     types \in [1..2 -> {Relay, OneShot}],
     es \in UNION {[1..k -> TypedEdges] : k \in 0..MaxEdges}}
    \cup {[AComponent EXCEPT !.cell_type = types] :
            types \in [1..4 -> {Relay, OneShot}]}

InitTypes ==
  /\ \E g \in TypedComponents : \E ic \in InitCellSeqs(g) :
        /\ instance = NewInstance(g, ic)
        /\ init_cells = ic
  /\ pc = "new"
  /\ step_ret = "none"
  /\ trace_log = <<>>
  /\ aborted = FALSE
  /\ NoOrchestrator

SpecTypes == InitTypes /\ [][NextInst]_vars

\* ------------------------------------------------------- orchestrator.rs
\* An instance as the orchestrator holds it: the ComponentInstance and the
\* queue of connector indices signal_connector_in has appended.
OrchInstance(component) ==
  [inst |-> NewInstance(component, <<>>), incoming_signals |-> <<>>]

\* signal_connector_in(connector_index)
signal_connector_in(oi, connector_index) ==
  [oi EXCEPT !.incoming_signals = Append(@, connector_index)]

\* The InstanceConnectorIx values a step hands to context.signal_connector for
\* the ConnectorOut nodes it signalled.
ConnectorEvents(component, outs) ==
  [i \in 1..Len(outs) |-> component.to_instance_connector[outs[i].connector]]

\* What signalling a ConnectorOut without a resolved target may do: the step
\* panics on the missing target, or the signal is dropped.
UnresolvedOutcomes == {"panic", "skip"}

IsResolved(icx) == icx # Unresolved

\* instance.step(context): the queued connector signals join the fired nodes,
\* then the cycle of ComponentInstance::step; the resolved targets of the
\* ConnectorOut nodes signalled go to the context.
step_in_context(oi, on_unresolved) ==
  Bind(step([oi.inst EXCEPT !.fired_nodes = @ \o oi.incoming_signals]), LAMBDA r :
    Bind(ConnectorEvents(oi.inst.component, r.events), LAMBDA evs :
      [oi     |-> [inst |-> r.inst, incoming_signals |-> <<>>],
       ret    |-> r.ret,
       events |-> SelectSeq(evs, IsResolved),
       panic  |-> \/ r.abort
                  \/ /\ on_unresolved = "panic"
                     /\ \E i \in 1..Len(evs) : ~IsResolved(evs[i])]))

InstanceGraphNode(component_name, inst) ==
  [component_name |-> component_name, instance |-> inst]

\* The references get_instance resolves: the root's InstanceRefNode, or the
\* InstanceConnectorIx of a signalled connector.
RootRef == [type |-> "InstanceRefNode", instance_ix |-> 0, connector_ix |-> 0]

ConnectorRef(icx) ==
  [type |-> "InstanceConnectorIx", instance_ix |-> icx.instance_ix,
   connector_ix |-> icx.connector_ix]

\* get_or_create_instance_graph_node on the orchestrator state o: the state
\* after it, the node index, the instance found there (0 for None), and
\* whether indexing the instance graph panicked.
get_or_create_instance_graph_node(o, ref) ==
  IF ref.type = "InstanceRefNode"
  THEN IF o.root.instance_ix # 0
       THEN [o |-> o, ix |-> o.root.instance_ix,
             found |-> o.ig[o.root.instance_ix].instance, panic |-> FALSE]
       ELSE [o |-> [o EXCEPT !.ig = Append(@, InstanceGraphNode(o.root.component_name, 0)),
                             !.root.instance_ix = Len(o.ig) + 1],
             ix |-> Len(o.ig) + 1, found |-> 0, panic |-> FALSE]
  ELSE IF ref.instance_ix \in 1..Len(o.ig)
       THEN [o |-> o, ix |-> ref.instance_ix,
             found |-> o.ig[ref.instance_ix].instance, panic |-> FALSE]
       ELSE [o |-> o, ix |-> ref.instance_ix, found |-> 0, panic |-> TRUE]

\* The walk over the new instance's component-reference nodes: a Connection
\* edge leaving one borrows the instance mutably while the match on the edge
\* still borrows it, which panics; other edges are skipped.
ResolvingConnectionsPanics(component) ==
  \E i \in 1..Len(component.edges) :
    /\ component.edges[i].kind = "Connection"
    /\ component.kind[component.edges[i].src] = "Component"

\* get_instance when the node holds no instance: the instance is created; for
\* an InstanceRefNode it is put in a new node the reference is moved to.
CreateInstance(o, ref, ix) ==
  LET component_name == o.ig[ix].component_name IN
  IF component_name \notin DOMAIN o.components
  THEN [o |-> o, k |-> 0, panic |-> TRUE]
  ELSE LET component == o.components[component_name]
           k == Len(o.insts) + 1
       IN [o |-> IF ref.type = "InstanceRefNode"
                 THEN [o EXCEPT !.insts = Append(@, OrchInstance(component)),
                                !.ig = Append(@, InstanceGraphNode(component_name, k)),
                                !.root.instance_ix = Len(o.ig) + 1]
                 ELSE [o EXCEPT !.insts = Append(@, OrchInstance(component))],
           k |-> k,
           panic |-> ResolvingConnectionsPanics(component)]

\* A get_instance that does not look at the instance the node holds.
CreateInstanceAnew(o, ref) ==
  Bind(get_or_create_instance_graph_node(o, ref), LAMBDA g :
    IF g.panic THEN [o |-> g.o, k |-> 0, panic |-> TRUE]
    ELSE CreateInstance(g.o, ref, g.ix))

\* Orchestrator::get_instance: the state after it, the instance returned (its
\* place in instances) and whether it panicked.
get_instance(o, ref) ==
  Bind(get_or_create_instance_graph_node(o, ref), LAMBDA g :
    IF g.panic THEN [o |-> g.o, k |-> 0, panic |-> TRUE]
    ELSE IF g.found # 0 THEN [o |-> g.o, k |-> g.found, panic |-> FALSE]
    ELSE CreateInstance(g.o, ref, g.ix))

\* ExecutionContext::start_cycle
start_cycle(ctx) ==
  IF Len(ctx.active_instance_ixs) = 0
  THEN [ctx EXCEPT !.active_instance_ixs = ctx.queued_instance_ixs,
                   !.queued_instance_ixs = ctx.active_instance_ixs]
  ELSE ctx

\* ExecutionContext::end_cycle: the context it leaves (it returns whether
\* queued_instance_ixs is not empty).
end_cycle(ctx) == [ctx EXCEPT !.active_instance_ixs = <<>>]

\* A step on a graph that the instances of one component share: the flags and
\* the signals it leaves show in every instance of that component.
StepSharingGraph(o, ix) ==
  IF ix \notin 1..Len(o.ig) \/ o.ig[ix].instance = 0
  THEN [o EXCEPT !.panic = TRUE]
  ELSE Bind(step_in_context(o.insts[o.ig[ix].instance], o.on_unresolved), LAMBDA r :
         [o EXCEPT !.insts =
                     [k \in DOMAIN o.insts |->
                        IF k = o.ig[ix].instance THEN r.oi
                        ELSE IF o.insts[k].inst.component = r.oi.inst.component
                             THEN [o.insts[k] EXCEPT !.inst.flags = r.oi.inst.flags,
                                                     !.inst.signals = r.oi.inst.signals]
                             ELSE o.insts[k]],
                   !.ctx.signaled_connector_ixs = @ \o r.events,
                   !.ctx.queued_instance_ixs = IF r.ret THEN Append(@, ix) ELSE @,
                   !.panic = r.panic])

\* Orchestrator::step, the body of the loop over the active instances
StepActiveInstance(o, ix) ==
  IF ix \notin 1..Len(o.ig) \/ o.ig[ix].instance = 0
  THEN [o EXCEPT !.panic = TRUE]
  ELSE Bind(step_in_context(o.insts[o.ig[ix].instance], o.on_unresolved), LAMBDA r :
         [o EXCEPT !.insts[o.ig[ix].instance] = r.oi,
                   !.ctx.signaled_connector_ixs = @ \o r.events,
                   !.ctx.queued_instance_ixs = IF r.ret THEN Append(@, ix) ELSE @,
                   !.panic = r.panic])

\* Orchestrator::step, the loop over context.active_instance_ixs.clone()
RECURSIVE StepActive(_, _, _)
StepActive(o, active, i) ==
  IF i > Len(active) \/ o.panic THEN o
  ELSE Bind(StepActiveInstance(o, active[i]),
            LAMBDA next : StepActive(next, active, i + 1))

StepActiveInstances(o) == StepActive(o, o.ctx.active_instance_ixs, 1)

\* Orchestrator::step, the body of the loop over the signalled connectors
DeliverSignal(o, icx) ==
  Bind(get_instance(o, ConnectorRef(icx)), LAMBDA r :
    IF r.panic THEN [r.o EXCEPT !.panic = TRUE]
    ELSE [r.o EXCEPT !.insts[r.k] = signal_connector_in(@, icx.connector_ix),
                     !.ctx.queued_instance_ixs = Append(@, icx.instance_ix)])

\* Orchestrator::step, the loop over context.signaled_connector_ixs
RECURSIVE Deliver(_, _, _)
Deliver(o, signaled, i) ==
  IF i > Len(signaled) \/ o.panic THEN o
  ELSE Bind(DeliverSignal(o, signaled[i]),
            LAMBDA next : Deliver(next, signaled, i + 1))

DeliverSignals(o) == Deliver(o, o.ctx.signaled_connector_ixs, 1)

\* The two loops of Orchestrator::step in their order: every active instance
\* is stepped, then every signalled connector is delivered.
DeliverThenStepInstances(o) ==
  Bind(DeliverSignals(o), LAMBDA delivered : StepActiveInstances(delivered))

StepThenDeliver(o) ==
  Bind(StepActiveInstances(o), LAMBDA stepped : DeliverSignals(stepped))

\* Orchestrator::step on the orchestrator state: what it leaves and returns.
orchestrator_step(o) ==
  Bind(StepThenDeliver([o EXCEPT !.ctx = start_cycle(@)]), LAMBDA o1 :
    [o     |-> [o1 EXCEPT !.ctx = end_cycle(@)],
     ret   |-> Len(o1.ctx.queued_instance_ixs) > 0,
     panic |-> o1.panic])

\* Orchestrator::signal_root_instance_connector_in
signal_root_instance_connector_in(o, connector_index) ==
  Bind(get_instance(o, RootRef), LAMBDA r :
    IF r.panic THEN [r.o EXCEPT !.panic = TRUE]
    ELSE [r.o EXCEPT !.insts[r.k] = signal_connector_in(@, connector_index),
                     !.ctx.queued_instance_ixs = Append(@, r.o.root.instance_ix)])

\* The orchestrator's data as one record, with what a call on it does on
\* an unresolved ConnectorOut.
OrchState(on_unresolved) ==
  [components |-> components, root |-> root_instance_ref, ig |-> instance_graph,
   insts |-> instances, ctx |-> context, panic |-> FALSE,
   on_unresolved |-> on_unresolved]

\* The root component of orchestrator test it_works.
RootAComponent ==
  ComponentWith("AComponent", <<"ConnectorIn", "Cell", "Cell", "Cell">>,
                <<Relay, Relay, Relay, Relay>>,
                <<Signal(1, 2, 0), Association(2, 3), Signal(2, 4, 0)>>,
                <<"connector_in", "", "", "">>, <<"", "", "", "">>,
                <<Unresolved, Unresolved, Unresolved, Unresolved>>)

\* The components of orchestrator test it_works2.
Component1 ==
  ComponentWith("Component1", <<"ConnectorIn", "Cell">>, <<Relay, Relay>>,
                <<Signal(1, 2, 0)>>, <<"connector_in", "">>, <<"", "">>,
                <<Unresolved, Unresolved>>)

Component2 ==
  ComponentWith("Component2", <<"ConnectorIn", "Cell", "ConnectorOut", "Component">>,
                <<Relay, Relay, Relay, Relay>>,
                <<Signal(1, 2, 0), Signal(2, 3, 0), Connection(3, 4, "connector_in")>>,
                <<"connector_in", "", "", "component_1">>,
                <<"", "", "", "Component1">>,
                <<Unresolved, Unresolved, Unresolved, Unresolved>>)

\* A root whose ConnectorOut the producer built with its route filled in, to
\* the connector `to` of the instance-graph node `ix`: two ConnectorIn nodes,
\* each signalling a cell, the first cell signalling the ConnectorOut.
Routed(ix, to) ==
  ComponentWith("Routed", <<"ConnectorIn", "ConnectorIn", "Cell", "Cell", "ConnectorOut">>,
                <<Relay, Relay, Relay, Relay, Relay>>,
                <<Signal(1, 3, 0), Signal(2, 4, 0), Signal(3, 5, 0)>>,
                <<"a", "b", "", "", "">>, <<"", "", "", "", "">>,
                <<Unresolved, Unresolved, Unresolved, Unresolved,
                  InstanceConnectorIx(ix, to)>>)

\* A parent with two component-reference nodes that name the same child, each
\* wired by a Connection edge to the parent's ConnectorIn.
TwoRefs ==
  ComponentWith("TwoRefs", <<"ConnectorIn", "Cell", "Component", "Component">>,
                <<Relay, Relay, Relay, Relay>>,
                <<Signal(1, 2, 0), Connection(3, 1, "connector_in"),
                  Connection(4, 1, "connector_in")>>,
                <<"connector_in", "", "first", "second">>,
                <<"", "", "Component1", "Component1">>,
                <<Unresolved, Unresolved, Unresolved, Unresolved>>)

\* Component2 with a reference the catalog cannot resolve: its Connection
\* names the connector connector_name of the component child.
Dangling(name, child, connector_name) ==
  ComponentWith(name, <<"ConnectorIn", "Cell", "ConnectorOut", "Component">>,
                <<Relay, Relay, Relay, Relay>>,
                <<Signal(1, 2, 0), Signal(2, 3, 0), Connection(3, 4, connector_name)>>,
                <<"connector_in", "", "", "child">>,
                <<"", "", "", child>>,
                <<Unresolved, Unresolved, Unresolved, Unresolved>>)

\* The child Component1 has no ConnectorIn of that name.
BadConnector == Dangling("BadConnector", "Component1", "no_such_connector")

\* No component of that name is in the catalog.
MissingChild == Dangling("MissingChild", "Nowhere", "connector_in")

Catalog(cs) == [n \in {c.name : c \in cs} |-> CHOOSE c \in cs : c.name = n]

\* The orchestrators built by add_root_component and add_component: the
\* catalog and the name of the root.
Orchestrators ==
  {[root |-> "AComponent", components |-> Catalog({RootAComponent})],
   [root |-> "Component2", components |-> Catalog({Component2, Component1})],
   [root |-> "TwoRefs", components |-> Catalog({TwoRefs, Component1})],
   [root |-> "BadConnector", components |-> Catalog({BadConnector, Component1})],
   [root |-> "MissingChild", components |-> Catalog({MissingChild})]}
  \cup {[root |-> "Routed", components |-> Catalog({Routed(ix, to)})] :
          ix \in 1..2, to \in 1..2}

InitOrch ==
  /\ \E b \in Orchestrators :
       /\ components = b.components
       /\ root_instance_ref = [component_name |-> b.root, instance_ix |-> 0]
  /\ instance_graph = <<>>
  /\ instances = <<>>
  /\ context = [active_instance_ixs |-> <<>>, queued_instance_ixs |-> <<>>,
                signaled_connector_ixs |-> <<>>]
  /\ clock_cycle = 0
  /\ orch_pc = "idle"
  /\ signal_calls = 0
  /\ run_calls = 0
  /\ instance = NewInstance(AComponent, <<>>)
  /\ init_cells = <<>>
  /\ pc = "new"
  /\ step_ret = "none"
  /\ trace_log = <<>>
  /\ aborted = FALSE

Leave(o) ==
  /\ root_instance_ref' = o.root
  /\ instance_graph' = o.ig
  /\ instances' = o.insts
  /\ context' = o.ctx
  /\ UNCHANGED <<components, instVars>>

\* signal_root_instance_connector_in(c), called while run() is not looping,
\* for a ConnectorIn c of the root component.
SignalRoot ==
  /\ orch_pc = "idle"
  /\ Len(context.queued_instance_ixs) < MaxQueued
  /\ \E c \in NodesOf(components[root_instance_ref.component_name]) :
       /\ components[root_instance_ref.component_name].kind[c] = "ConnectorIn"
       /\ \E o \in {signal_root_instance_connector_in(OrchState("panic"), c)} :
            /\ Leave(o)
            /\ orch_pc' = IF o.panic THEN "panicked" ELSE "idle"
            /\ signal_calls' = signal_calls + 1
            /\ UNCHANGED <<clock_cycle, run_calls>>

\* One iteration of run()'s loop: Orchestrator::step.  From "idle" it is the
\* first iteration of a new call of run().
RunStep ==
  /\ orch_pc \in {"idle", "running"}
  /\ clock_cycle < MaxClock
  /\ \E u \in UnresolvedOutcomes :
       \E r \in {orchestrator_step(OrchState(u))} :
         /\ Leave(r.o)
         /\ clock_cycle' = clock_cycle + 1
         /\ orch_pc' = IF r.panic THEN "panicked"
                       ELSE IF r.ret THEN "running" ELSE "idle"
         /\ run_calls' = IF orch_pc = "idle" THEN run_calls + 1 ELSE run_calls
         /\ UNCHANGED signal_calls

NextOrch == SignalRoot \/ RunStep

SpecOrch == InitOrch /\ [][NextOrch]_vars

\* ------------------------------------------------ claims on the instance
Cyc == instance.instance_cycle

Quiescent ==
  /\ instance.fired_nodes = <<>>
  /\ instance.staged_nodes = <<>>
  /\ instance.active_nodes = <<>>

NoRepeats(q) == \A i \in 1..Len(q) : \A j \in 1..Len(q) : q[i] = q[j] => i = j

\* The positions of the trace that record a staging (not a fired node).
StagingEntries == {i \in 1..Len(trace_log) : trace_log[i].via # "Fired"}

\* C1: step() on an instance whose three lists are empty returns false, and
\* every step() call that returns increments instance_cycle by exactly 1.
C1_StepIncrementsCycle ==
  [][ /\ ~aborted' => instance'.instance_cycle = instance.instance_cycle + 1
      /\ (Quiescent => (~aborted' /\ step_ret' = "false")) ]_instVars

C1_QuiescentStepped ==
  /\ init_cells = <<>>
  /\ Quiescent
  /\ Cyc >= 2
  /\ step_ret = "false"

\* A graph of cells in which the seed has no incoming edge and every other
\* cell at most one: what the seed reaches is a tree rooted at the seed.
EdgesInto(g, n) == {i \in 1..Len(g.edges) : g.edges[i].dst = n}

TreeSeeded ==
  LET g == instance.component IN
  /\ Len(init_cells) = 1
  /\ \A n \in NodesOf(g) : g.kind[n] = "Cell"
  /\ EdgesInto(g, init_cells[1]) = {}
  /\ \A n \in NodesOf(g) : Cardinality(EdgesInto(g, n)) <= 1

SetMax(S) == CHOOSE x \in S : \A y \in S : y <= x

\* The number of cells on the longest path from n to a leaf.
RECURSIVE Height(_, _)
Height(g, n) ==
  LET kids == {g.edges[i].dst : i \in {j \in 1..Len(g.edges) : g.edges[j].src = n}}
  IN IF kids = {} THEN 1 ELSE 1 + SetMax({Height(g, k) : k \in kids})

\* C2: run() on a tree of cells seeded with its root returns with
\* instance_cycle = (cells on the longest root-to-leaf path) + 1, which is 4
\* for the component of test it_works; run() has returned by that cycle.
C2_RunCycles ==
  TreeSeeded =>
    LET h == Height(instance.component, init_cells[1]) IN
    /\ pc = "returned" => Cyc = h + 1
    /\ Cyc >= h + 1 => pc # "running"
    /\ (instance.component = AComponent /\ pc = "returned") => Cyc = 4

C2_ChainReturned ==
  /\ instance.component = AComponent
  /\ init_cells = <<1>>
  /\ pc = "returned"
  /\ Cyc = 4

\* The run of test it_works: the component AComponent seeded with A.
ChainRun == instance.component = AComponent /\ init_cells = <<1>> /\ pc # "idle"

\* C3 as stated: in the run of the chain, cycle 1 activates A, cycle 2 stages
\* B without activating it, cycle 3 activates B and stages C and D, cycle 4
\* activates C and D; a cell staged during a step() is not activated by it.
C3_StagedActivatedNextStep ==
  /\ ChainRun =>
       /\ Cyc = 1 => FIRED \in instance.flags[1]
       /\ Cyc = 2 => FIRED \notin instance.flags[2]
       /\ Cyc = 3 => (FIRED \in instance.flags[2] /\ FIRED \notin instance.flags[3]
                        /\ FIRED \notin instance.flags[4])
       /\ Cyc = 4 => (FIRED \in instance.flags[3] /\ FIRED \in instance.flags[4]
                        /\ pc = "returned")
  /\ \A i \in StagingEntries : FIRED \notin instance.flags[trace_log[i].node]

\* C3 amended: cycle 1 activates A; cycle 2 stages and activates B; cycle 3
\* stages and activates D and C; cycle 4 activates nothing and run() returns.
\* A cell staged during a step() that returns is activated (FIRED, in
\* fired_nodes) by that same step().
C3_StagedActivatedSameStep ==
  /\ ChainRun =>
       /\ Cyc = 1 => (instance.fired_nodes = <<1>> /\ FIRED \in instance.flags[1])
       /\ Cyc = 2 => (instance.fired_nodes = <<2>> /\ FIRED \in instance.flags[2]
                        /\ trace_log = <<[via |-> "Fired", node |-> 1],
                                         [via |-> "Signal", node |-> 2]>>)
       /\ Cyc = 3 => (instance.fired_nodes = <<4, 3>>
                        /\ FIRED \in instance.flags[3] /\ FIRED \in instance.flags[4]
                        /\ trace_log = <<[via |-> "Fired", node |-> 2],
                                         [via |-> "Signal", node |-> 4],
                                         [via |-> "Association", node |-> 3]>>)
       /\ Cyc = 4 => (instance.fired_nodes = <<>> /\ pc = "returned"
                        /\ \A n \in 1..4 : FIRED \notin instance.flags[n])
  /\ ~aborted =>
       \A i \in StagingEntries :
         /\ FIRED \in instance.flags[trace_log[i].node]
         /\ \E k \in 1..Len(instance.fired_nodes) :
              instance.fired_nodes[k] = trace_log[i].node

C3_ChainCycleThree ==
  /\ ChainRun
  /\ Cyc = 3
  /\ instance.fired_nodes = <<4, 3>>

C5_SignalsStagedBeforeAssociations ==
  \A i \in StagingEntries : \A j \in StagingEntries :
    (trace_log[i].via = "Association" /\ trace_log[j].via = "Signal") => j < i

\* C6: at the end of every step() no cell carries STAGED.
C6_StagedClearedWhenProcessed ==
  step_ret # "none" =>
    \A n \in NodesOf(instance.component) : STAGED \notin instance.flags[n]

\* C7: for the cells A -Signal-> B -Signal-> A seeded with A, step() returns
\* true in every cycle.
C7_SignalCycleNeverQuiescent ==
  (/\ instance.component.edges = <<Signal(1, 2, 0), Signal(2, 1, 0)>>
   /\ init_cells = <<1>>) => step_ret # "false"

\* C8: what step() returned is is_active() of the instance it left, and
\* staged_nodes is empty whenever step() returns.
C8_ReturnIsActive ==
  (step_ret # "none" /\ ~aborted) =>
    /\ (step_ret = "true") = is_active(instance)
    /\ instance.staged_nodes = <<>>

C8_ReturnedTrue ==
  /\ step_ret = "true"
  /\ is_active(instance)
  /\ Len(instance.active_nodes) > 1

\* -------------------------------------------- claims on the orchestrator
\* The instance-graph nodes that hold an instance, and that instance.
LiveNodes == {ix \in 1..Len(instance_graph) : instance_graph[ix].instance # 0}

InstanceAt(ix) == instances[instance_graph[ix].instance]

Occurrences(q, x) == Cardinality({i \in 1..Len(q) : q[i] = x})

\* A call of Orchestrator::step that returned.
GlobalStep == clock_cycle' = clock_cycle + 1 /\ orch_pc' # "panicked"

\* The connector events pushed by the instances stepped in this global step.
EmittedNow ==
  SubSeq(context'.signaled_connector_ixs, Len(context.signaled_connector_ixs) + 1,
         Len(context'.signaled_connector_ixs))

\* The connector indices of the events of q that go to the node ix, in order.
RECURSIVE ConnectorsFor(_, _)
ConnectorsFor(q, ix) ==
  IF q = <<>> THEN <<>>
  ELSE IF Head(q).instance_ix = ix
       THEN <<Head(q).connector_ix>> \o ConnectorsFor(Tail(q), ix)
       ELSE ConnectorsFor(Tail(q), ix)

C10_DeliveredExactlyOnce ==
  [][ GlobalStep =>
        /\ \A ix \in LiveNodes :
             instances'[instance_graph[ix].instance].incoming_signals
               = ConnectorsFor(EmittedNow, ix)
        /\ (context.queued_instance_ixs = <<>> /\ context.signaled_connector_ixs = <<>>)
             => orch_pc' = "idle" ]_vars

\* run() has returned and nothing was signalled since.
RunReturned ==
  orch_pc = "idle" /\ run_calls > 0 /\ context.queued_instance_ixs = <<>>

\* The first call of run() has returned, the root having been signalled before it.
FirstRunReturned == RunReturned /\ run_calls = 1 /\ signal_calls > 0

RootComponent == components[root_instance_ref.component_name]

RootInstance == InstanceAt(root_instance_ref.instance_ix)

\* C11: for the root Component2 (ConnectorIn -> Cell -> ConnectorOut
\* -Connection("connector_in")-> reference to Component1), signalling the
\* root's ConnectorIn and calling run() creates an instance of Component1 and
\* steps it on the signal delivered to its ConnectorIn.
C11_ChildActivated ==
  (RootComponent.name = "Component2" /\ FirstRunReturned /\ signal_calls = 1)
    => \E k \in 1..Len(instances) :
         /\ instances[k].inst.component.name = "Component1"
         /\ instances[k].inst.instance_cycle > 0

\* C12: for the components of test it_works2, signalling the root's
\* ConnectorIn once and calling run() ends with clock_cycle = 3.
C12_ItWorks2ClockIsThree ==
  (RootComponent.name = "Component2" /\ FirstRunReturned /\ signal_calls = 1)
    => clock_cycle = 3

\* C13: with a root that has no component reference, when run() has returned
\* the global clock is the number of step() calls made on the root instance;
\* for the root of test it_works signalled once it is 3.
C13_ClockIsRootSteps ==
  ((\A n \in NodesOf(RootComponent) : RootComponent.kind[n] # "Component")
     /\ FirstRunReturned)
    => /\ clock_cycle = RootInstance.inst.instance_cycle
       /\ (RootComponent.name = "AComponent" /\ signal_calls = 1) => clock_cycle = 3

\* The nodes of the instance graph made for the component name.
GraphNodesOf(name) ==
  {ix \in 1..Len(instance_graph) : instance_graph[ix].component_name = name}

\* C14: once the root TwoRefs is instantiated, its two references to
\* Component1 have two different instance-graph nodes, and the instances of
\* Component1 are held by different nodes.
C14_TwoRefsTwoNodes ==
  (RootComponent.name = "TwoRefs" /\ signal_calls > 0)
    => /\ orch_pc # "panicked"
       /\ Cardinality(GraphNodesOf("Component1")) = 2
       /\ \A a, b \in GraphNodesOf("Component1") :
            (a # b /\ instance_graph[a].instance # 0)
              => instance_graph[a].instance # instance_graph[b].instance

\* C15: every ComponentInstance the orchestrator has created is held by a
\* node of the instance graph (where a later resolution of the node finds it
\* and Orchestrator::step can step it), and no call panics on a node that
\* was resolved before.
C15_CreatedInstanceIsStored ==
  /\ \A k \in 1..Len(instances) :
       \E ix \in 1..Len(instance_graph) : instance_graph[ix].instance = k
  /\ RootComponent.name = "Routed" => orch_pc # "panicked"

\* A call of signal_root_instance_connector_in that returned.
RootSignalled == signal_calls' = signal_calls + 1 /\ orch_pc' # "panicked"

\* C16: no instance exists before the first call of
\* signal_root_instance_connector_in; the first call creates the root
\* instance and signals it; every later call creates nothing and appends its
\* connector to the queue of that same instance.
C16_RootCreatedOnce ==
  [][ /\ signal_calls = 0 => instances = <<>>
      /\ RootSignalled =>
           \E c \in NodesOf(RootComponent) :
             IF root_instance_ref.instance_ix = 0
             THEN /\ Len(instances') = 1
                  /\ root_instance_ref'.instance_ix \in 1..Len(instance_graph')
                  /\ instance_graph'[root_instance_ref'.instance_ix].instance = 1
                  /\ instances'[1] = signal_connector_in(OrchInstance(RootComponent), c)
             ELSE /\ root_instance_ref' = root_instance_ref
                  /\ instance_graph' = instance_graph
                  /\ instances' =
                       [instances EXCEPT
                          ![instance_graph[root_instance_ref.instance_ix].instance] =
                             signal_connector_in(@, c)] ]_vars

\* The root was signalled twice and there is one instance, holding both signals.
C16_RootSignalledTwice ==
  /\ signal_calls = 2
  /\ root_instance_ref.instance_ix # 0
  /\ Len(instances) = 1
  /\ Len(RootInstance.incoming_signals) = 2

\* C17: instantiating a root whose graph holds a reference to a component
\* that is not in the catalog, or a Connection naming a ConnectorIn the child
\* does not have, aborts the call that resolves it.
C17_DanglingReferenceIsFatal ==
  (RootComponent.name \in {"BadConnector", "MissingChild"} /\ signal_calls > 0)
    => orch_pc = "panicked"

\* --------------------------------- claims on the instance, malformed graphs
\* The edges of the given kind that leave a fired node of inst.
FiredEdges(inst, kind) ==
  {i \in 1..Len(inst.component.edges) :
     /\ inst.component.edges[i].kind = kind
     /\ \E j \in 1..Len(inst.fired_nodes) :
          inst.fired_nodes[j] = inst.component.edges[i].src}

\* A fired node has a Signal edge to a ConnectorIn or a component reference.
SignalToNonCell(inst) ==
  \E i \in FiredEdges(inst, "Signal") :
    inst.component.kind[inst.component.edges[i].dst] \in {"ConnectorIn", "Component"}

\* C18: step() aborts, without completing the cycle, exactly when a fired node
\* has a Signal edge to a ConnectorIn or to a component reference; Signal
\* edges to cells and to ConnectorOut nodes do not abort it.
C18_SignalToNonCellAborts ==
  [][ /\ aborted' <=> SignalToNonCell(instance)
      /\ aborted' => instance'.instance_cycle = instance.instance_cycle ]_vars

\* A step has aborted on such an edge.
C18_AbortedOnSignalEdge == aborted /\ SignalToNonCell(instance)

\* C19: step() aborts when a fired ConnectorIn has an Association edge.
C19_AssociationFromConnectorAborts ==
  [][ (\E i \in FiredEdges(instance, "Association") :
         instance.component.kind[instance.component.edges[i].src] = "ConnectorIn")
        => aborted' ]_vars

\* What a step() on inst leaves and returns, the component apart.
StepOutcome(inst) ==
  Bind(step(inst), LAMBDA r :
    [ret |-> r.ret, events |-> r.events, log |-> r.log, abort |-> r.abort,
     flags |-> r.inst.flags, signals |-> r.inst.signals,
     fired_nodes |-> r.inst.fired_nodes, active_nodes |-> r.inst.active_nodes,
     staged_nodes |-> r.inst.staged_nodes, instance_cycle |-> r.inst.instance_cycle])

\* C20: in every state of a run, step() does the same whatever the cell types
\* are changed to; and the cells of a new active list all fire, in its order.
C20_CellTypesAlike ==
  [][ /\ \A types \in [NodesOf(instance.component) -> {Relay, OneShot}] :
           StepOutcome([instance EXCEPT !.component.cell_type = types])
             = StepOutcome(instance)
      /\ (~aborted' /\ instance'.active_nodes # instance.active_nodes)
           => instance'.fired_nodes = instance'.active_nodes ]_vars

\* A OneShot cell was activated twice and fired both times.
C20_OneShotFiredTwice ==
  \E i, j \in 1..Len(instance.fired_nodes) :
    /\ i < j
    /\ instance.fired_nodes[i] = instance.fired_nodes[j]
    /\ instance.component.kind[instance.fired_nodes[i]] = "Cell"
    /\ instance.component.cell_type[instance.fired_nodes[i]] = OneShot

\* ------------------------------------ claims on the phases of one step()
\* The step in progress when propagate_fired_signals has returned.
AfterPropagate(inst) ==
  [inst |-> propagate_fired_signals(inst), events |-> <<>>, log |-> <<>>,
   abort |-> FALSE]

\* The bits of the Signal edges that lead from a node of the fired list to n.
FiredBits(inst, n) ==
  {inst.component.edges[i].bit :
     i \in {j \in FiredEdges(inst, "Signal") : inst.component.edges[j].dst = n}}

\* C21: in every step(), when the staging phase starts the bits of all Signal
\* edges of all fired nodes are in the signals of their target cells and
\* nothing is staged or flagged yet; the staging phase changes no signals; and
\* the step is the propagate phase, then the staging phase, then the swap and
\* the activation.
C21_PropagatedBeforeStaging ==
  [][ \E s0 \in {AfterPropagate(instance)} :
        \E s1 \in {stage_signaled_and_associated_nodes(s0)} :
          /\ \A n \in NodesOf(instance.component) :
               instance.component.kind[n] = "Cell"
                 => FiredBits(instance, n) \subseteq s0.inst.signals[n]
          /\ s0.inst.staged_nodes = instance.staged_nodes
          /\ s0.inst.flags = instance.flags
          /\ s1.inst.signals = s0.inst.signals
          /\ s1.abort => aborted'
          /\ ~s1.abort => instance' = FinishStep(SwapAndProcess(s1)).inst ]_vars

\* The step staged a cell through an Association edge of one fired node, and
\* a fired node handled after that has a Signal edge to a cell.
C21_AssociationStagedFirst ==
  \E a \in StagingEntries : \E q \in 1..Len(trace_log) :
    /\ trace_log[a].via = "Association"
    /\ trace_log[q].via = "Fired"
    /\ q > a
    /\ \E e \in 1..Len(instance.component.edges) :
         /\ instance.component.edges[e].kind = "Signal"
         /\ instance.component.edges[e].src = trace_log[q].node
         /\ instance.component.kind[instance.component.edges[e].dst] = "Cell"

\* C22: propagate_fired_signals leaves in each cell its previous signals ORed
\* with the bit of every Signal edge from a node of the fired list to it
\* (signal bits below 32); no other node gets a bit, and nothing but the
\* signals is modified.
C22_PropagateOrsFiredBits ==
  \E p \in {propagate_fired_signals(instance)} :
    /\ \A n \in NodesOf(instance.component) :
         p.signals[n] =
           instance.signals[n]
             \cup (IF instance.component.kind[n] = "Cell"
                   THEN FiredBits(instance, n) ELSE {})
    /\ p = [instance EXCEPT !.signals = p.signals]

\* A cell that holds a bit is about to receive another one, from a fired node
\* that also has an Association and a Connection edge.
C22_BitOntoPendingBits ==
  \E n \in NodesOf(instance.component) :
    /\ instance.signals[n] # {}
    /\ FiredBits(instance, n) \ instance.signals[n] # {}
    /\ FiredEdges(instance, "Association") # {}
    /\ FiredEdges(instance, "Connection") # {}

\* C23: when step() returns, every cell of the fired list (the cells the step
\* processed) has signals = 0.
C23_FiredCellsHaveNoSignals ==
  (step_ret # "none" /\ ~aborted) =>
    \A i \in 1..Len(instance.fired_nodes) :
      instance.component.kind[instance.fired_nodes[i]] = "Cell"
        => instance.signals[instance.fired_nodes[i]] = {}

\* The step staged a cell through a Signal edge, whose bit the cell had
\* received, and processed it.
C23_SignalledCellProcessed ==
  /\ ~aborted
  /\ \E t \in StagingEntries : \E i \in 1..Len(instance.fired_nodes) :
       /\ trace_log[t].via = "Signal"
       /\ instance.fired_nodes[i] = trace_log[t].node
       /\ instance.signals[trace_log[t].node] = {}

\* C24: when step() returns, every cell of the instance has signals = 0.
C24_NoSignalPending ==
  (step_ret # "none" /\ ~aborted) =>
    \A n \in NodesOf(instance.component) : instance.signals[n] = {}

\* The firings of Signal edges into node c in a step over the fired list
\* `fired`: one per entry of the list and edge of that node to c.
SignalFirings(g, fired, c) ==
  {<<j, i>> \in (1..Len(fired)) \X (1..Len(g.edges)) :
     /\ g.edges[i].kind = "Signal"
     /\ g.edges[i].src = fired[j]
     /\ g.edges[i].dst = c}

ConnectorOuts(g) == {c \in NodesOf(g) : g.kind[c] = "ConnectorOut"}

InList(q, x) == \E i \in 1..Len(q) : q[i] = x

\* C25: a step() whose fired nodes signal only cells and ConnectorOut nodes
\* returns, and forwards for each ConnectorOut exactly one event per Signal
\* edge into it per entry of the fired list, each carrying the id of the
\* instance; a ConnectorOut is never in staged_nodes, active_nodes or
\* fired_nodes and never gets a flag.
C25_ConnectorOutForwarded ==
  [][ \E r \in {step(instance)} :
        /\ ~SignalToNonCell(instance) =>
             /\ ~r.abort
             /\ \A c \in ConnectorOuts(instance.component) :
                  Cardinality({i \in 1..Len(r.events) : r.events[i].connector = c})
                    = Cardinality(SignalFirings(instance.component,
                                                instance.fired_nodes, c))
             /\ \A i \in 1..Len(r.events) :
                  /\ r.events[i].instance_id = instance.id
                  /\ r.events[i].connector \in ConnectorOuts(instance.component)
        /\ \A c \in ConnectorOuts(instance.component) :
             /\ instance'.flags[c] = {}
             /\ ~InList(instance'.staged_nodes, c)
             /\ ~InList(instance'.active_nodes, c)
             /\ ~InList(instance'.fired_nodes, c) ]_vars

\* The step that has returned handled fired nodes with, together, two or
\* more Signal edges into one ConnectorOut.
C25_ConnectorSignalledTwice ==
  /\ ~aborted
  /\ \E c \in ConnectorOuts(instance.component) :
       Cardinality(
         {<<j, i>> \in (1..Len(trace_log)) \X (1..Len(instance.component.edges)) :
            /\ trace_log[j].via = "Fired"
            /\ instance.component.edges[i] = Signal(trace_log[j].node, c, 0)}) >= 2

\* ------------------------------------ claims on the instance graph
\* C26: in every instance the orchestrator has created, each ConnectorOut with
\* a Connection edge to a component reference has its target set: the
\* instance-graph node made for the referenced component, and the ConnectorIn
\* of that component that has the name of the edge.
C26_ConnectorOutsResolved ==
  \A k \in 1..Len(instances) :
    LET g == instances[k].inst.component IN
    \A i \in 1..Len(g.edges) :
      (/\ g.edges[i].kind = "Connection"
       /\ g.kind[g.edges[i].src] = "ConnectorOut"
       /\ g.kind[g.edges[i].dst] = "Component")
        => LET t == g.to_instance_connector[g.edges[i].src]
               child == g.component_name[g.edges[i].dst] IN
           /\ t.instance_ix \in 1..Len(instance_graph)
           /\ instance_graph[t.instance_ix].component_name = child
           /\ child \in DOMAIN components
           /\ t.connector_ix \in NodesOf(components[child])
           /\ components[child].kind[t.connector_ix] = "ConnectorIn"
           /\ components[child].node_name[t.connector_ix] = g.edges[i].name

\* C27: once the root is resolved the instance graph holds exactly one node
\* for it, and that node holds the root instance.
C27_OneNodePerInstantiation ==
  (root_instance_ref.instance_ix # 0 /\ orch_pc # "panicked") =>
    /\ Cardinality(GraphNodesOf(RootComponent.name)) = 1
    /\ instance_graph[root_instance_ref.instance_ix].instance # 0

\* C28: when step() has returned, no cell is in two of staged_nodes,
\* active_nodes and fired_nodes.
C28_ListsDisjoint ==
  \A n \in NodesOf(instance.component) :
    instance.component.kind[n] = "Cell" =>
      /\ ~(InList(instance.staged_nodes, n) /\ InList(instance.active_nodes, n))
      /\ ~(InList(instance.staged_nodes, n) /\ InList(instance.fired_nodes, n))
      /\ ~(InList(instance.active_nodes, n) /\ InList(instance.fired_nodes, n))

\* C29: when step() returns, a Cell or ConnectorIn has FIRED iff it is in
\* fired_nodes; and in every step(), when the staging phase has ended (before
\* the activation) no node has FIRED and fired_nodes is empty.
C29_FiredFlagIsFiredList ==
  [][ /\ ~aborted' =>
           \A n \in NodesOf(instance'.component) :
             instance'.component.kind[n] \in {"Cell", "ConnectorIn"} =>
               (FIRED \in instance'.flags[n] <=> InList(instance'.fired_nodes, n))
      /\ \E s1 \in {stage_signaled_and_associated_nodes(AfterPropagate(instance))} :
           ~s1.abort =>
             /\ s1.inst.fired_nodes = <<>>
             /\ \A n \in NodesOf(instance.component) : FIRED \notin s1.inst.flags[n] ]_vars

\* The step that has returned cleared the flag of a fired node, which did not
\* fire again, and activated other nodes.
C29_FlagClearedOthersFired ==
  /\ ~aborted
  /\ instance.fired_nodes # <<>>
  /\ \E j \in 1..Len(trace_log) :
       /\ trace_log[j].via = "Fired"
       /\ FIRED \notin instance.flags[trace_log[j].node]
       /\ ~InList(instance.fired_nodes, trace_log[j].node)

\* C30: the active set of every Orchestrator::step holds no instance index
\* twice.
C30_SteppedOncePerCycle ==
  [][ clock_cycle' = clock_cycle + 1
        => NoRepeats(start_cycle(context).active_instance_ixs) ]_vars

\* ------------------------------------ claims on the instances together
\* The instances held by the nodes an Orchestrator::step called now steps.
SteppedNow ==
  {instance_graph[ix].instance :
     ix \in {x \in 1..Len(instance_graph) :
               InList(start_cycle(context).active_instance_ixs, x)}}

\* C31: an Orchestrator::step leaves the catalog as it is, and of every
\* instance that is not in its active set it leaves the graph copy, the
\* flags, the signals, the lists and the cycle counter as they are; the
\* instances it steps keep their component.
C31_InstancesIsolated ==
  [][ clock_cycle' = clock_cycle + 1 =>
        /\ components' = components
        /\ \A u \in UnresolvedOutcomes :
             orchestrator_step(OrchState(u)).o.components = components
        /\ \A k \in 1..Len(instances) :
             /\ k \notin SteppedNow => instances'[k].inst = instances[k].inst
             /\ instances'[k].inst.component = instances[k].inst.component
             /\ instances'[k].inst.component = components[instances[k].inst.component.name]
      ]_vars

\* Two instances of one component: the root, which the second global step
\* has stepped (after two signals the first steps it twice at most), and an
\* instance made in the first global step, which is as it was made.
C31_SiblingUntouched ==
  /\ signal_calls = 2
  /\ clock_cycle = 2
  /\ Len(instances) = 2
  /\ instances[1].inst.component = instances[2].inst.component
  /\ instances[1].inst.instance_cycle = 3
  /\ instances[1].inst.flags # instances[2].inst.flags
  /\ instances[2].inst = NewInstance(instances[2].inst.component, <<>>)

\* C32: the next step() of an instance with connectors waiting in its
\* incoming queue takes them all from the queue, and stages and activates in
\* that same step every cell that a Signal edge of such a connector leads to.
C32_InjectedSignalActivates ==
  \A ix \in LiveNodes :
    \A u \in UnresolvedOutcomes :
      \E r \in {step_in_context(InstanceAt(ix), u)} :
        ~r.panic =>
          /\ r.oi.incoming_signals = <<>>
          /\ \A j \in 1..Len(InstanceAt(ix).incoming_signals) :
               \A i \in 1..Len(r.oi.inst.component.edges) :
                 LET e == r.oi.inst.component.edges[i] IN
                 (/\ e.kind = "Signal"
                  /\ e.src = InstanceAt(ix).incoming_signals[j]
                  /\ r.oi.inst.component.kind[e.dst] = "Cell")
                   => /\ InList(r.oi.inst.active_nodes, e.dst)
                      /\ InList(r.oi.inst.fired_nodes, e.dst)
                      /\ FIRED \in r.oi.inst.flags[e.dst]

\* ------------------------------------ claims on the termination of run()
\* The Signal and Association edges of g form no directed cycle: the nodes
\* can be taken away one set at a time, each set the nodes that no such edge
\* from a remaining node leads to.
RECURSIVE Peel(_, _)
Peel(g, remaining) ==
  IF remaining = {} THEN TRUE
  ELSE LET free == {n \in remaining :
                     \A i \in 1..Len(g.edges) :
                       (g.edges[i].kind \in {"Signal", "Association"}
                          /\ g.edges[i].dst = n) => g.edges[i].src \notin remaining}
       IN free # {} /\ Peel(g, remaining \ free)

Acyclic(g) == Peel(g, NodesOf(g))

CellsOf(g) == {n \in NodesOf(g) : g.kind[n] = "Cell"}

\* The nodes a step can activate.
ActivableNodes(g) == {n \in NodesOf(g) : g.kind[n] \in {"Cell", "ConnectorIn"}}

\* In a run() on an acyclic graph in which no step panics, at most n calls of
\* step() return true, and when step() has returned false the fired and the
\* staged list are empty and no node has FIRED.
RunEndsWithin(n) ==
  (Acyclic(instance.component) /\ ~aborted) =>
    /\ pc = "running" => Cyc <= n
    /\ pc = "returned" =>
         /\ Cyc <= n + 1
         /\ instance.fired_nodes = <<>>
         /\ instance.staged_nodes = <<>>
         /\ \A m \in NodesOf(instance.component) : FIRED \notin instance.flags[m]

====
